---------------------------- MODULE Spec2Model ----------------------------
(***************************************************************************)
(* TracFit (src/tracfit.ino): a fitness tracker that classifies one of     *)
(* four exercises from an accelerometer sample, counts ten repetitions     *)
(* of it and shows progress on ten LEDs.                                   *)
(*                                                                         *)
(* The program is one sequential thread.  Its inputs are the button poll   *)
(* of loop() and the accelerometer sample read at the top of every         *)
(* sampling loop; the model takes one step per input read, and one step    *)
(* per straight-line stretch of code between two loop exits.               *)
(***************************************************************************)
EXTENDS Integers, FiniteSets, Sequences, TLC

(***************************************************************************)
(* Program constants.                                                      *)
(***************************************************************************)
REPS == 10

JumpX == -15

(***************************************************************************)
(* Bound of the model: accelerometer readings are floats in the program;   *)
(* the model draws Y and Z from 0..MaxAxis and X from the same range       *)
(* extended by the three values around the jump threshold.                 *)
(***************************************************************************)
MaxAxis == 2

\* Bound of the model: the ticks of a session are counted up to MaxTicks,
\* which stands for "MaxTicks or more".
MaxTicks == 4

Axis == 0 .. MaxAxis

XVals == Axis \cup {JumpX - 1, JumpX, JumpX + 1}

Kinds == {"JumpJacks", "Squats", "SitUps", "PushUps"}

None == "none"

Pixels == 0 .. 9

Color(k) ==
  CASE k = "JumpJacks" -> "GREEN"
    [] k = "Squats"    -> "BLUE"
    [] k = "SitUps"    -> "PURPLE"
    [] k = "PushUps"   -> "PINK"

VARIABLES
  pc,            \* position of the thread
  active,        \* the kind whose track* function was called by the
                 \* running beginTracking, None if none was
  finished,      \* finishedJumpJacks, finishedSquats, ... by kind
  numOf,         \* numOfJumpJacks, numOfSquats, ... by kind
  X, Y, Z,       \* the globals holding the last sample read
  isUpSitUp,     \* local of trackSitUps (FALSE outside it)
  isDownPushUp,  \* local of trackPushUps (FALSE outside it)
  isDownSquat,   \* local of trackSquats (FALSE outside it)
  totalJumps,    \* local of trackJumpJacks (0 outside it)
  leds,          \* the ten NeoPixels
  \* history of the run, read by the properties only
  outcome,       \* what the last classification sample led to
  sessions,      \* calls of each track* function
  victory,       \* calls of victorySong by each track* function
  ticks,         \* samples the session has read (up to MaxTicks)
  refed,         \* the last tick re-fed the sample of the tick before
                 \* it, which had left the phase unchanged
  lastChanged,   \* the last tick changed the detector's phase
  lastInc,       \* the last tick counted a repetition
  sawTick,       \* a tick since the last repetition had an active sample
  sawRead,       \* same, the sample that bound the session included
  streamActive,  \* the sample stream is in its active half-cycle
  trans,         \* returns of the sample stream to the reference phase
                 \* (counted up to REPS)
  qual           \* ticks of the session with X <= -15

vars == <<pc, active, finished, numOf, X, Y, Z, isUpSitUp, isDownPushUp,
          isDownSquat, totalJumps, leds, outcome, sessions, victory,
          ticks, refed, lastChanged, lastInc, sawTick, sawRead,
          streamActive, trans, qual>>

hist == <<ticks, refed, lastChanged, lastInc, sawTick, sawRead,
          streamActive, trans, qual>>

locals == <<isUpSitUp, isDownPushUp, isDownSquat, totalJumps>>

(***************************************************************************)
(* LED primitives.                                                         *)
(***************************************************************************)
clearPixels == [i \in Pixels |-> "OFF"]

setAllLeds(color) == [i \in Pixels |-> color]

\* blinkAnimLed ends with clearPixels and a delay.
blinkAnimLed(color) == clearPixels

showMainMenu(fin) ==
  [i \in Pixels |->
     IF i \in {0, 1} /\ ~fin["JumpJacks"] THEN "GREEN"
     ELSE IF i \in {3, 4} /\ ~fin["Squats"] THEN "BLUE"
     ELSE IF i \in {5, 6} /\ ~fin["SitUps"] THEN "PURPLE"
     ELSE IF i \in {8, 9} /\ ~fin["PushUps"] THEN "PINK"
     ELSE "OFF"]

(***************************************************************************)
(* The comparisons of the detectors, as the spec's table names them.       *)
(***************************************************************************)
ActiveCmp(k, x, y, z) ==
  CASE k = "SitUps"    -> x < y
    [] k = "PushUps"   -> z < x
    [] k = "Squats"    -> z < y
    [] k = "JumpJacks" -> x <= JumpX

RefCmp(k, x, y, z) ==
  CASE k = "SitUps"    -> x > y
    [] k = "PushUps"   -> z > x
    [] k = "Squats"    -> z > y
    [] k = "JumpJacks" -> FALSE

(***************************************************************************)
(* beginTracking's choice on the sample read at its start.                 *)
(***************************************************************************)
\* Mutants of Classify: the Pushups branch without its finished test; the
\* upright test with its second comparison turned; the Pushups test with
\* non-strict comparisons.
ClassifyIgnoresFinished(x, y, z, fin) ==
  IF x < y /\ y < z THEN "upright"
  ELSE IF y > z /\ z > x THEN "PushUps"
  ELSE IF ~fin["SitUps"] /\ z > x /\ x > y THEN "SitUps"
  ELSE "undetermined"

ClassifyUprightTypo(x, y, z, fin) ==
  IF x < y /\ y > z THEN "upright"
  ELSE IF ~fin["PushUps"] /\ y > z /\ z > x THEN "PushUps"
  ELSE IF ~fin["SitUps"] /\ z > x /\ x > y THEN "SitUps"
  ELSE "undetermined"

ClassifyNonStrict(x, y, z, fin) ==
  IF x < y /\ y < z THEN "upright"
  ELSE IF ~fin["PushUps"] /\ y >= z /\ z >= x THEN "PushUps"
  ELSE IF ~fin["SitUps"] /\ z > x /\ x > y THEN "SitUps"
  ELSE "undetermined"

\* Mutant of Classify: the Situps test has lost its second comparison.
ClassifySitUpsLoose(x, y, z, fin) ==
  IF x < y /\ y < z THEN "upright"
  ELSE IF ~fin["PushUps"] /\ y > z /\ z > x THEN "PushUps"
  ELSE IF ~fin["SitUps"] /\ z > x THEN "SitUps"
  ELSE "undetermined"

Classify(x, y, z, fin) ==
  IF x < y /\ y < z THEN "upright"
  ELSE IF ~fin["PushUps"] /\ y > z /\ z > x THEN "PushUps"
  ELSE IF ~fin["SitUps"] /\ z > x /\ x > y THEN "SitUps"
  ELSE "undetermined"

(***************************************************************************)
(* The choice of one pass of the while (true) loop of beginTracking.       *)
(***************************************************************************)
\* Mutant of Disambiguate: the JumpingJacks test without its finished test.
DisambiguateIgnoresFinished(x, y, z, fin) ==
  IF x <= JumpX THEN "JumpJacks"
  ELSE IF ~fin["Squats"] /\ z < y THEN "Squats"
  ELSE "again"

\* Mutant of Disambiguate: the two tests in the other order.
DisambiguateSquatsFirst(x, y, z, fin) ==
  IF ~fin["Squats"] /\ z < y THEN "Squats"
  ELSE IF ~fin["JumpJacks"] /\ x <= JumpX THEN "JumpJacks"
  ELSE "again"

Disambiguate(x, y, z, fin) ==
  IF ~fin["JumpJacks"] /\ x <= JumpX THEN "JumpJacks"
  ELSE IF ~fin["Squats"] /\ z < y THEN "Squats"
  ELSE "again"

(***************************************************************************)
(* One pass of each detector loop: the new local and whether a repetition  *)
(* is counted.                                                             *)
(***************************************************************************)
\* Mutant of SitUpsTick: the counting test is not strict.
SitUpsTickNonStrict(isUp, x, y) ==
  IF isUp /\ x >= y THEN [st |-> FALSE, rep |-> TRUE]
  ELSE IF ~isUp /\ x < y THEN [st |-> TRUE, rep |-> FALSE]
  ELSE [st |-> isUp, rep |-> FALSE]

\* Mutant of SitUpsTick: the counting branch forgets isUpSitUp = false.
SitUpsTickKeepsPhase(isUp, x, y) ==
  IF isUp /\ x > y THEN [st |-> isUp, rep |-> TRUE]
  ELSE IF ~isUp /\ x < y THEN [st |-> TRUE, rep |-> FALSE]
  ELSE [st |-> isUp, rep |-> FALSE]

SitUpsTick(isUp, x, y) ==
  IF isUp /\ x > y THEN [st |-> FALSE, rep |-> TRUE]
  ELSE IF ~isUp /\ x < y THEN [st |-> TRUE, rep |-> FALSE]
  ELSE [st |-> isUp, rep |-> FALSE]

\* Mutant of PushUpsTick: the second branch writes false, not true.
PushUpsTickStuck(isDown, x, z) ==
  IF isDown /\ z > x THEN [st |-> FALSE, rep |-> TRUE]
  ELSE IF ~isDown /\ z < x THEN [st |-> FALSE, rep |-> FALSE]
  ELSE [st |-> isDown, rep |-> FALSE]

PushUpsTick(isDown, x, z) ==
  IF isDown /\ z > x THEN [st |-> FALSE, rep |-> TRUE]
  ELSE IF ~isDown /\ z < x THEN [st |-> TRUE, rep |-> FALSE]
  ELSE [st |-> isDown, rep |-> FALSE]

\* Mutant of SquatsTick: the counting branch does not test isDownSquat.
SquatsTickNoPhase(isDown, y, z) ==
  IF z > y THEN [st |-> FALSE, rep |-> TRUE]
  ELSE IF ~isDown /\ z < y THEN [st |-> TRUE, rep |-> FALSE]
  ELSE [st |-> isDown, rep |-> FALSE]

SquatsTick(isDown, y, z) ==
  IF isDown /\ z > y THEN [st |-> FALSE, rep |-> TRUE]
  ELSE IF ~isDown /\ z < y THEN [st |-> TRUE, rep |-> FALSE]
  ELSE [st |-> isDown, rep |-> FALSE]

\* Mutant of JumpJacksTick: every jump counts, the parity test is lost.
JumpJacksTickEveryJump(total, x) ==
  IF x <= JumpX
    THEN [st |-> total + 1, rep |-> TRUE]
    ELSE [st |-> total, rep |-> FALSE]

JumpJacksTick(total, x) ==
  IF x <= JumpX
    THEN [st |-> total + 1, rep |-> (total + 1) % 2 = 0]
    ELSE [st |-> total, rep |-> FALSE]

\* The locals as each track* function initialises them.
\* Mutant of InitIsUpSitUp: the session starts in the up phase.
InitIsUpSitUpWrong == TRUE

InitIsUpSitUp == FALSE

InitIsDownPushUp == FALSE

InitIsDownSquat == TRUE

InitTotalJumps == 1

\* The test of while (numOf... < REPS): where the thread is after it.
\* Mutants of LoopPc: the loop runs once too often; the loop ends a
\* repetition early.
LoopPcOffByOne(n) == IF n <= REPS THEN "track" ELSE "done"

LoopPcEarly(n) == IF n < REPS - 1 THEN "track" ELSE "done"

LoopPc(n) == IF n < REPS THEN "track" ELSE "done"

\* The detector's phase: the local of the three phase detectors, and for
\* JumpingJacks the half of the two-jump cycle (the parity of totalJumps).
Phase(k) ==
  CASE k = "SitUps"    -> isUpSitUp
    [] k = "PushUps"   -> isDownPushUp
    [] k = "Squats"    -> isDownSquat
    [] k = "JumpJacks" -> totalJumps % 2 = 0
    [] OTHER           -> FALSE

(***************************************************************************)
(* The initial state: setup() has run.                                     *)
(***************************************************************************)
Init ==
  /\ pc = "idle"
  /\ active = None
  /\ finished = [k \in Kinds |-> FALSE]
  /\ numOf = [k \in Kinds |-> 0]
  /\ X = 0 /\ Y = 0 /\ Z = 0
  /\ isUpSitUp = FALSE
  /\ isDownPushUp = FALSE
  /\ isDownSquat = FALSE
  /\ totalJumps = 0
  /\ leds = showMainMenu([k \in Kinds |-> FALSE])
  /\ outcome = None
  /\ sessions = [k \in Kinds |-> 0]
  /\ victory = [k \in Kinds |-> 0]
  /\ ticks = 0
  /\ refed = FALSE
  /\ lastChanged = FALSE
  /\ lastInc = FALSE
  /\ sawTick = FALSE
  /\ sawRead = FALSE
  /\ streamActive = FALSE
  /\ trans = 0
  /\ qual = 0

\* The history of a session at the call of track*(k), the sample that
\* bound it being in X', Y', Z'.
HistStart(k) ==
  /\ sessions' = [sessions EXCEPT ![k] = @ + 1]
  /\ ticks' = 0
  /\ refed' = FALSE
  /\ lastChanged' = FALSE
  /\ lastInc' = FALSE
  /\ sawTick' = FALSE
  /\ sawRead' = ActiveCmp(k, X', Y', Z')
  /\ streamActive' = ActiveCmp(k, X', Y', Z')
  /\ trans' = 0
  /\ qual' = 0

\* The call of track*(k) up to the first test of its loop.
StartTracking(k) ==
  /\ active' = k
  /\ leds' = blinkAnimLed(Color(k))
  /\ isUpSitUp' = IF k = "SitUps" THEN InitIsUpSitUp ELSE FALSE
  /\ isDownPushUp' = IF k = "PushUps" THEN InitIsDownPushUp ELSE FALSE
  /\ isDownSquat' = IF k = "Squats" THEN InitIsDownSquat ELSE FALSE
  /\ totalJumps' = IF k = "JumpJacks" THEN InitTotalJumps ELSE 0
  /\ pc' = LoopPc(numOf[k])
  /\ HistStart(k)

(***************************************************************************)
(* loop() with a button pressed: white LEDs, then beginTracking reads the  *)
(* starting position and branches on it.                                   *)
(***************************************************************************)
Press ==
  /\ pc = "idle"
  /\ \E x \in XVals, y \in Axis, z \in Axis :
       /\ X' = x /\ Y' = y /\ Z' = z
       /\ outcome' = Classify(x, y, z, finished)
       /\ \/ /\ Classify(x, y, z, finished) = "upright"
             /\ pc' = "upright"
             /\ leds' = setAllLeds("WHITE")
             /\ UNCHANGED <<active, locals, sessions, hist>>
          \/ /\ Classify(x, y, z, finished) \in {"PushUps", "SitUps"}
             /\ StartTracking(Classify(x, y, z, finished))
          \/ /\ Classify(x, y, z, finished) = "undetermined"
             /\ pc' = "menu"
             /\ leds' = setAllLeds("WHITE")
             /\ UNCHANGED <<active, locals, sessions, hist>>
  /\ UNCHANGED <<finished, numOf, victory>>

(***************************************************************************)
(* One pass of the while (true) loop of the upright branch.                *)
(***************************************************************************)
Upright ==
  /\ pc = "upright"
  /\ \E x \in XVals, y \in Axis, z \in Axis :
       /\ X' = x /\ Y' = y /\ Z' = z
       /\ \/ /\ Disambiguate(x, y, z, finished) \in {"JumpJacks", "Squats"}
             /\ StartTracking(Disambiguate(x, y, z, finished))
          \/ /\ Disambiguate(x, y, z, finished) = "again"
             /\ UNCHANGED <<pc, active, locals, leds, sessions, hist>>
  /\ UNCHANGED <<finished, numOf, victory, outcome>>

\* Mutants of Counted: the increment goes to numOfSquats whatever the kind
\* (a pasted line left unedited); the LED is lit after the increment.
CountedWrongKind(k, r, x, y, z, changed) ==
  /\ X' = x /\ Y' = y /\ Z' = z
  /\ numOf' = IF r.rep THEN [numOf EXCEPT !["Squats"] = @ + 1] ELSE numOf
  /\ leds' = IF r.rep THEN [leds EXCEPT ![numOf[k]] = Color(k)] ELSE leds
  /\ pc' = LoopPc(numOf'[k])
  /\ ticks' = IF ticks < MaxTicks THEN ticks + 1 ELSE ticks
  /\ refed' = (ticks > 0 /\ ~lastChanged /\ <<x, y, z>> = <<X, Y, Z>>)
  /\ lastChanged' = changed
  /\ lastInc' = r.rep
  /\ sawTick' = IF r.rep THEN FALSE ELSE sawTick \/ ActiveCmp(k, x, y, z)
  /\ sawRead' = IF r.rep THEN FALSE ELSE sawRead \/ ActiveCmp(k, x, y, z)
  /\ streamActive' = IF ActiveCmp(k, x, y, z) THEN TRUE
                     ELSE IF RefCmp(k, x, y, z) THEN FALSE
                     ELSE streamActive
  /\ trans' = IF streamActive /\ RefCmp(k, x, y, z) /\ trans < REPS
                THEN trans + 1
                ELSE trans
  /\ qual' = IF k = "JumpJacks" /\ x <= JumpX THEN qual + 1 ELSE qual
  /\ UNCHANGED <<active, finished, outcome, sessions, victory>>

CountedLedAfter(k, r, x, y, z, changed) ==
  /\ X' = x /\ Y' = y /\ Z' = z
  /\ numOf' = IF r.rep THEN [numOf EXCEPT ![k] = @ + 1] ELSE numOf
  /\ leds' = IF r.rep /\ numOf'[k] \in Pixels
              THEN [leds EXCEPT ![numOf'[k]] = Color(k)]
              ELSE leds
  /\ pc' = LoopPc(numOf'[k])
  /\ ticks' = IF ticks < MaxTicks THEN ticks + 1 ELSE ticks
  /\ refed' = (ticks > 0 /\ ~lastChanged /\ <<x, y, z>> = <<X, Y, Z>>)
  /\ lastChanged' = changed
  /\ lastInc' = r.rep
  /\ sawTick' = IF r.rep THEN FALSE ELSE sawTick \/ ActiveCmp(k, x, y, z)
  /\ sawRead' = IF r.rep THEN FALSE ELSE sawRead \/ ActiveCmp(k, x, y, z)
  /\ streamActive' = IF ActiveCmp(k, x, y, z) THEN TRUE
                     ELSE IF RefCmp(k, x, y, z) THEN FALSE
                     ELSE streamActive
  /\ trans' = IF streamActive /\ RefCmp(k, x, y, z) /\ trans < REPS
                THEN trans + 1
                ELSE trans
  /\ qual' = IF k = "JumpJacks" /\ x <= JumpX THEN qual + 1 ELSE qual
  /\ UNCHANGED <<active, finished, outcome, sessions, victory>>

\* What a pass of a detector loop does once the detector has decided:
\* r is the detector's result, s the sample.
Counted(k, r, x, y, z, changed) ==
  /\ X' = x /\ Y' = y /\ Z' = z
  /\ numOf' = IF r.rep THEN [numOf EXCEPT ![k] = @ + 1] ELSE numOf
  /\ leds' = IF r.rep THEN [leds EXCEPT ![numOf[k]] = Color(k)] ELSE leds
  /\ pc' = LoopPc(numOf'[k])
  /\ ticks' = IF ticks < MaxTicks THEN ticks + 1 ELSE ticks
  /\ refed' = (ticks > 0 /\ ~lastChanged /\ <<x, y, z>> = <<X, Y, Z>>)
  /\ lastChanged' = changed
  /\ lastInc' = r.rep
  /\ sawTick' = IF r.rep THEN FALSE ELSE sawTick \/ ActiveCmp(k, x, y, z)
  /\ sawRead' = IF r.rep THEN FALSE ELSE sawRead \/ ActiveCmp(k, x, y, z)
  /\ streamActive' = IF ActiveCmp(k, x, y, z) THEN TRUE
                     ELSE IF RefCmp(k, x, y, z) THEN FALSE
                     ELSE streamActive
  /\ trans' = IF streamActive /\ RefCmp(k, x, y, z) /\ trans < REPS
                THEN trans + 1
                ELSE trans
  /\ qual' = IF k = "JumpJacks" /\ x <= JumpX THEN qual + 1 ELSE qual
  /\ UNCHANGED <<active, finished, outcome, sessions, victory>>

TickSitUps ==
  /\ pc = "track" /\ active = "SitUps"
  /\ \E x \in XVals, y \in Axis, z \in Axis :
       LET r == SitUpsTick(isUpSitUp, x, y) IN
       /\ isUpSitUp' = r.st
       /\ Counted("SitUps", r, x, y, z, r.st # isUpSitUp)
  /\ UNCHANGED <<isDownPushUp, isDownSquat, totalJumps>>

TickPushUps ==
  /\ pc = "track" /\ active = "PushUps"
  /\ \E x \in XVals, y \in Axis, z \in Axis :
       LET r == PushUpsTick(isDownPushUp, x, z) IN
       /\ isDownPushUp' = r.st
       /\ Counted("PushUps", r, x, y, z, r.st # isDownPushUp)
  /\ UNCHANGED <<isUpSitUp, isDownSquat, totalJumps>>

TickSquats ==
  /\ pc = "track" /\ active = "Squats"
  /\ \E x \in XVals, y \in Axis, z \in Axis :
       LET r == SquatsTick(isDownSquat, y, z) IN
       /\ isDownSquat' = r.st
       /\ Counted("Squats", r, x, y, z, r.st # isDownSquat)
  /\ UNCHANGED <<isUpSitUp, isDownPushUp, totalJumps>>

TickJumpJacks ==
  /\ pc = "track" /\ active = "JumpJacks"
  /\ \E x \in XVals, y \in Axis, z \in Axis :
       LET r == JumpJacksTick(totalJumps, x) IN
       /\ totalJumps' = r.st
       /\ Counted("JumpJacks", r, x, y, z, r.st # totalJumps)
  /\ UNCHANGED <<isUpSitUp, isDownPushUp, isDownSquat>>

(***************************************************************************)
(* After the detector loop: the LED fill and the victory song ...          *)
(***************************************************************************)
Victory ==
  /\ pc = "done"
  /\ leds' = setAllLeds(Color(active))
  /\ victory' = [victory EXCEPT ![active] = @ + 1]
  /\ pc' = "mark"
  /\ UNCHANGED <<active, finished, numOf, X, Y, Z, locals, outcome,
                 sessions, hist>>

(***************************************************************************)
(* ... then the finished flag, and the return to beginTracking.            *)
(***************************************************************************)
\* Mutant of MarkFinished: the function returns without setting its flag.
MarkFinishedForgets ==
  /\ pc = "mark"
  /\ pc' = IF active \in {"JumpJacks", "Squats"} THEN "reload" ELSE "menu"
  /\ isUpSitUp' = FALSE
  /\ isDownPushUp' = FALSE
  /\ isDownSquat' = FALSE
  /\ totalJumps' = 0
  /\ UNCHANGED <<active, finished, numOf, X, Y, Z, leds, outcome, sessions,
                 victory, hist>>

MarkFinished ==
  /\ pc = "mark"
  /\ finished' = [finished EXCEPT ![active] = TRUE]
  /\ pc' = IF active \in {"JumpJacks", "Squats"} THEN "reload" ELSE "menu"
  /\ isUpSitUp' = FALSE
  /\ isDownPushUp' = FALSE
  /\ isDownSquat' = FALSE
  /\ totalJumps' = 0
  /\ UNCHANGED <<active, numOf, X, Y, Z, leds, outcome, sessions, victory,
                 hist>>

(***************************************************************************)
(* The upright branch shows the menu and breaks out of its loop.           *)
(***************************************************************************)
\* Mutant of Reload: the break is missing, the upright loop goes on.
ReloadNoBreak ==
  /\ pc = "reload"
  /\ leds' = showMainMenu(finished)
  /\ pc' = "upright"
  /\ UNCHANGED <<active, finished, numOf, X, Y, Z, locals, outcome,
                 sessions, victory, hist>>

Reload ==
  /\ pc = "reload"
  /\ leds' = showMainMenu(finished)
  /\ pc' = "menu"
  /\ UNCHANGED <<active, finished, numOf, X, Y, Z, locals, outcome,
                 sessions, victory, hist>>

(***************************************************************************)
(* The end of beginTracking: the menu, and back to loop().                 *)
(***************************************************************************)
Menu ==
  /\ pc = "menu"
  /\ leds' = showMainMenu(finished)
  /\ pc' = "idle"
  /\ active' = None
  /\ ticks' = 0
  /\ refed' = FALSE
  /\ lastChanged' = FALSE
  /\ lastInc' = FALSE
  /\ sawTick' = FALSE
  /\ sawRead' = FALSE
  /\ streamActive' = FALSE
  /\ trans' = 0
  /\ qual' = 0
  /\ UNCHANGED <<finished, numOf, X, Y, Z, locals, outcome, sessions,
                 victory>>

\* The steps the program takes by itself once a sample is there.
Step ==
  \/ Upright
  \/ TickSitUps
  \/ TickPushUps
  \/ TickSquats
  \/ TickJumpJacks
  \/ Victory
  \/ MarkFinished
  \/ Reload
  \/ Menu

Next == Press \/ Step

Spec == Init /\ [][Next]_vars

\* The thread never stops by itself: only the button press is the user's.
FairSpec == Spec /\ WF_vars(Step)

(***************************************************************************)
(* The same program on a stream of samples drawn from one sample of each   *)
(* case the code distinguishes: the three orientations, a tie, the active  *)
(* and the reference side of each detector's comparison, a jump, and a     *)
(* jump together with a squat.  The thread is weakly fair: it never stops  *)
(* between two reads.                                                      *)
(***************************************************************************)
LiveSamples ==
  {<<0, 1, 2>>, <<0, 2, 1>>, <<1, 0, 2>>, <<1, 0, 0>>, <<0, 0, 0>>,
   <<JumpX, 0, 0>>, <<JumpX, 1, 0>>}

Sampled == <<X', Y', Z'>> \in LiveSamples

LiveStep ==
  \/ Upright /\ Sampled
  \/ TickSitUps /\ Sampled
  \/ TickPushUps /\ Sampled
  \/ TickSquats /\ Sampled
  \/ TickJumpJacks /\ Sampled
  \/ Victory
  \/ MarkFinished
  \/ Reload
  \/ Menu

LiveNext == (Press /\ Sampled) \/ LiveStep

LiveSpec == Init /\ [][LiveNext]_vars /\ WF_vars(LiveStep)

(***************************************************************************)
(* Vocabulary of the properties.                                           *)
(***************************************************************************)
Phased == {"SitUps", "PushUps", "Squats"}

\* The indicator pair of each kind on the main menu.
Pair(k) ==
  CASE k = "JumpJacks" -> {0, 1}
    [] k = "Squats"    -> {3, 4}
    [] k = "SitUps"    -> {5, 6}
    [] k = "PushUps"   -> {8, 9}

\* A display on which exactly the pairs of the unfinished kinds are lit.
MenuShows(l, fin) ==
  \A k \in Kinds : \A i \in Pair(k) :
    l[i] = IF fin[k] THEN "OFF" ELSE Color(k)

\* This step is a pass of the detector loop of kind k.
TickOf(k) == pc = "track" /\ active = k

\* This step is the call of track*(k).
Starts(k) == sessions'[k] # sessions[k]

\* The sample matches none of the three orientations of beginTracking.
NoOrientation(x, y, z) ==
  /\ ~(x < y /\ y < z)
  /\ ~(y > z /\ z > x)
  /\ ~(z > x /\ x > y)

(***************************************************************************)
(* C1: for every kind, completedReps (the numOf globals) never decreases,  *)
(* changes by at most +1 in one step (so in one sampling tick), and is     *)
(* within 0..10 in every reachable state.                                  *)
(***************************************************************************)
C1_RepsStep ==
  \A k \in Kinds : numOf'[k] = numOf[k] \/ numOf'[k] = numOf[k] + 1

C1_RepsMonotoneBounded ==
  /\ [](\A k \in Kinds : numOf[k] \in 0 .. REPS)
  /\ [][C1_RepsStep]_vars

C1_Witness ==
  /\ numOf["Squats"] = REPS
  /\ TickOf("JumpJacks")
  /\ numOf["JumpJacks"] = REPS - 1

(***************************************************************************)
(* C2: once finished is true for a kind, no step starts a tracking         *)
(* session of that kind, and every main menu computed afterwards (by the   *)
(* showMainMenu of the upright branch or of the end of beginTracking)      *)
(* leaves that kind's pair unlit and lights the pair of every unfinished   *)
(* kind.                                                                   *)
(***************************************************************************)
C2_Step ==
  /\ \A k \in Kinds : finished[k] => ~Starts(k)
  /\ pc \in {"reload", "menu"} /\ pc' # pc => MenuShows(leds', finished')

C2_FinishedKindExcluded == [][C2_Step]_vars

C2_Witness ==
  /\ pc = "idle"
  /\ finished["PushUps"]
  /\ ~finished["SitUps"]
  /\ outcome = "undetermined"
  /\ Y > Z /\ Z > X
  /\ sessions["PushUps"] = 1
  /\ leds[8] = "OFF" /\ leds[9] = "OFF" /\ leds[5] = "PURPLE"

(***************************************************************************)
(* C3: whenever a start trigger is taken and classification yields nothing *)
(* actionable (no orientation matches, or every kind consistent with the   *)
(* orientation is finished, the upright orientation with JumpingJacks and  *)
(* Squats both finished included), the controller eventually returns to    *)
(* Idle.                                                                   *)
(***************************************************************************)
NothingActionable ==
  \/ pc = "menu" /\ active = None
  \/ pc = "upright" /\ finished["JumpJacks"] /\ finished["Squats"]

C3_NothingActionableReturnsToIdle == NothingActionable ~> (pc = "idle")

(***************************************************************************)
(* C4: in each of the four detectors, a tick that re-feeds the sample of   *)
(* the previous tick of the same session, when that previous tick left     *)
(* the detector's phase unchanged, does not increment completedReps.       *)
(***************************************************************************)
C4_RefeedNeverCounts == refed => ~lastInc

C4_Witness ==
  /\ refed
  /\ active = "SitUps"
  /\ isUpSitUp
  /\ numOf["SitUps"] = 1
  /\ ticks = 4

(***************************************************************************)
(* C5 as stated: in the Situps, Pushups and Squats detectors every         *)
(* increment happens on a tick whose sample satisfies the reference        *)
(* comparison and is preceded, in the same session and after the previous  *)
(* increment, by a tick whose sample satisfied the active comparison; a    *)
(* tick that enters the active phase never increments.                     *)
(***************************************************************************)
C5_EnteringNeverCounts ==
  \A k \in Phased :
    TickOf(k) /\ ~Phase(k) /\ Phase(k)' => numOf' = numOf

C5_OrigStep ==
  /\ \A k \in Phased :
       TickOf(k) /\ numOf' # numOf => sawTick /\ RefCmp(k, X', Y', Z')
  /\ C5_EnteringNeverCounts

C5_CountedAfterActiveTick == [][C5_OrigStep]_vars

(***************************************************************************)
(* C5 as amended: the active sample that precedes an increment is a tick   *)
(* of the session or the sample that bound the session (for Squats, the    *)
(* sample with z < y of the upright loop that called trackSquats).         *)
(***************************************************************************)
C5_AmendedStep ==
  /\ \A k \in Phased :
       TickOf(k) /\ numOf' # numOf => sawRead /\ RefCmp(k, X', Y', Z')
  /\ C5_EnteringNeverCounts

C5_CountedAfterActiveSample == [][C5_AmendedStep]_vars

C5_Witness ==
  /\ active = "Squats"
  /\ ticks = 1
  /\ lastInc
  /\ numOf["Squats"] = 1

(***************************************************************************)
(* C6: the routine-complete event (LED fill and victory song) of a kind    *)
(* happens at most once, only with completedReps = 10 and after the loop   *)
(* has ended, finished is set only after it, and both have happened once   *)
(* the session is over; in a Squats session completedReps is the number    *)
(* of down-then-up cycles of z against y, so 10 cycles give                *)
(* completedReps = 10 and finished.                                        *)
(***************************************************************************)
C6_CompletionOnce ==
  /\ \A k \in Kinds :
       /\ victory[k] <= 1
       /\ victory[k] = 1 => numOf[k] = REPS
       /\ finished[k] => victory[k] = 1
       /\ numOf[k] = REPS /\ ~(active = k /\ pc \in {"done", "mark"})
            => victory[k] = 1 /\ finished[k]
  /\ pc = "done" => victory[active] = 0 /\ numOf[active] = REPS
  /\ pc = "mark" => victory[active] = 1 /\ ~finished[active]
  /\ active = "Squats" => numOf["Squats"] = trans

C6_Witness ==
  /\ active = "Squats"
  /\ pc = "menu"
  /\ trans = 10
  /\ numOf["Squats"] = 10
  /\ finished["Squats"]
  /\ victory["Squats"] = 1

(***************************************************************************)
(* C7: the Situps detector starts in the down phase; a first sample with   *)
(* x > y counts nothing, a sample with x < y in the down phase only        *)
(* switches to up, a repetition is counted in the up phase exactly on a    *)
(* sample with x > y, and the repetitions counted are the up-to-down       *)
(* transitions of the sample stream (down, up, down: one, on the third     *)
(* sample).                                                                *)
(***************************************************************************)
C7_Step ==
  /\ Starts("SitUps") => ~isUpSitUp'
  /\ TickOf("SitUps") /\ ticks = 0 /\ X' > Y'
       => numOf' = numOf /\ ~isUpSitUp'
  /\ TickOf("SitUps") /\ ~isUpSitUp /\ X' < Y'
       => numOf' = numOf /\ isUpSitUp'
  /\ TickOf("SitUps") /\ isUpSitUp
       => /\ X' > Y' => numOf'["SitUps"] = numOf["SitUps"] + 1 /\ ~isUpSitUp'
          /\ ~(X' > Y') => numOf' = numOf /\ isUpSitUp'

C7_SitUpsCountsUpToDown ==
  /\ [][C7_Step]_vars
  /\ [](active = "SitUps" => numOf["SitUps"] = trans)
  /\ [](TickOf("SitUps") => isUpSitUp = streamActive)

C7_Witness ==
  /\ active = "SitUps"
  /\ ticks = 3
  /\ lastInc
  /\ trans = 1
  /\ numOf["SitUps"] = 1
  /\ ~isUpSitUp

(***************************************************************************)
(* C8: the JumpingJacks detector starts its jump counter at 1, increments  *)
(* it on exactly the ticks with x <= -15, and counts one repetition on     *)
(* exactly the ticks where the jump counter becomes even; 4 qualifying     *)
(* ticks give completedReps = 2.                                           *)
(***************************************************************************)
C8_Step ==
  /\ Starts("JumpJacks") => totalJumps' = 1
  /\ TickOf("JumpJacks") =>
       /\ totalJumps' = IF X' <= -15 THEN totalJumps + 1 ELSE totalJumps
       /\ numOf'["JumpJacks"] =
            IF totalJumps' # totalJumps /\ totalJumps' % 2 = 0
              THEN numOf["JumpJacks"] + 1
              ELSE numOf["JumpJacks"]

C8_JumpJacksEveryOtherJump ==
  /\ [][C8_Step]_vars
  /\ [](active = "JumpJacks" /\ pc \in {"track", "done", "mark"} =>
          /\ totalJumps = 1 + qual
          /\ numOf["JumpJacks"] = (qual + 1) \div 2)

C8_Witness ==
  /\ active = "JumpJacks"
  /\ qual = 4
  /\ totalJumps = 5
  /\ numOf["JumpJacks"] = 2
  /\ ~lastInc

(***************************************************************************)
(* C9: whatever the finished flags, a starting sample with x < y < z       *)
(* takes beginTracking into the upright loop and starts no session.        *)
(***************************************************************************)
C9_Step ==
  pc = "idle" /\ pc' # "idle" /\ X' < Y' /\ Y' < Z' =>
    /\ pc' = "upright"
    /\ active' = None
    /\ sessions' = sessions

C9_UprightGoesToLoop == [][C9_Step]_vars

C9_Witness ==
  /\ pc = "upright"
  /\ outcome = "upright"
  /\ X < Y /\ Y < Z
  /\ finished["JumpJacks"] /\ finished["Squats"]
  /\ ~finished["SitUps"] /\ ~finished["PushUps"]

(***************************************************************************)
(* C10: a starting sample that matches none of the three orientations      *)
(* (x = y = z among them) starts no session and leaves every counter and   *)
(* flag as it is, and the one step beginTracking takes after it shows the  *)
(* main menu and returns to Idle, again with no counter or flag changed.   *)
(***************************************************************************)
C10_Step ==
  /\ pc = "idle" /\ pc' # "idle" /\ NoOrientation(X', Y', Z') =>
       /\ pc' = "menu"
       /\ active' = None
       /\ UNCHANGED <<numOf, finished, sessions>>
  /\ pc = "menu" /\ active = None /\ pc' # pc =>
       /\ pc' = "idle"
       /\ MenuShows(leds', finished')
       /\ UNCHANGED <<numOf, finished, sessions>>

C10_NoOrientationNoSession == [][C10_Step]_vars

C10_Witness ==
  /\ pc = "idle"
  /\ outcome = "undetermined"
  /\ X = Y /\ Y = Z
  /\ finished["SitUps"]
  /\ leds[5] = "OFF" /\ leds[0] = "GREEN"

(***************************************************************************)
(* C11: for every kind, finished holds only with completedReps = 10; it    *)
(* becomes true in the session of that kind, the one in which the counter  *)
(* reached 10; once true it is never reset and the counter never changes   *)
(* again.                                                                  *)
(***************************************************************************)
C11_Step ==
  \A k \in Kinds :
    /\ finished[k] => finished'[k] /\ numOf'[k] = numOf[k]
    /\ ~finished[k] /\ finished'[k] =>
         active = k /\ numOf[k] = REPS /\ sessions[k] = 1 /\ trans + qual > 0

C11_FinishedPermanent ==
  /\ [](\A k \in Kinds : finished[k] => numOf[k] = REPS)
  /\ [][C11_Step]_vars

C11_Witness ==
  /\ finished["SitUps"]
  /\ numOf["SitUps"] = REPS
  /\ TickOf("PushUps")
  /\ numOf["PushUps"] = 5

(***************************************************************************)
(* C12: a session is left only by its completion: whenever the controller  *)
(* goes from a session of kind K back to Idle, completedReps of K is 10    *)
(* and finished of K is true, and the kind of a session never changes      *)
(* before that; the button is read by loop() alone, so in a session or in  *)
(* the upright loop no press is taken.                                     *)
(***************************************************************************)
C12_Step ==
  \A k \in Kinds :
    active = k =>
      \/ active' = k /\ pc' # "idle"
      \/ /\ active' = None /\ pc' = "idle"
         /\ numOf[k] = REPS /\ finished[k]
         /\ numOf'[k] = REPS /\ finished'[k]

C12_NoCancellation ==
  /\ [](pc # "idle" => ~ENABLED Press)
  /\ [](active \in Kinds => pc \notin {"idle", "upright"})
  /\ [][C12_Step]_vars

C12_Witness ==
  /\ pc = "idle"
  /\ outcome = "SitUps"
  /\ sessions["SitUps"] = 1
  /\ numOf["SitUps"] = REPS
  /\ finished["SitUps"]

(***************************************************************************)
(* C13: each sample read in the upright loop binds the session to          *)
(* JumpingJacks if that is not finished and x <= -15, otherwise to Squats  *)
(* if that is not finished and z < y, and otherwise the loop samples       *)
(* again; the loop is entered from Idle only, so it starts at most one     *)
(* session per entry.                                                      *)
(***************************************************************************)
C13_Jump == ~finished["JumpJacks"] /\ X' <= -15

C13_Squat == ~finished["Squats"] /\ Z' < Y'

C13_Step ==
  /\ pc = "upright" =>
       /\ C13_Jump =>
            active' = "JumpJacks" /\ Starts("JumpJacks") /\ ~Starts("Squats")
       /\ ~C13_Jump /\ C13_Squat =>
            active' = "Squats" /\ Starts("Squats") /\ ~Starts("JumpJacks")
       /\ ~C13_Jump /\ ~C13_Squat =>
            pc' = "upright" /\ active' = None /\ sessions' = sessions
       /\ ~Starts("SitUps") /\ ~Starts("PushUps")
  /\ pc' = "upright" => pc \in {"idle", "upright"} /\ active' = None

C13_UprightLoopBinding == [][C13_Step]_vars

C13_Witness ==
  /\ TickOf("JumpJacks")
  /\ ticks = 0
  /\ outcome = "upright"
  /\ ~finished["Squats"]
  /\ X <= -15 /\ Z < Y

(***************************************************************************)
(* C14: if the samples of a session satisfy the active comparison          *)
(* infinitely often and the reference comparison infinitely often (for     *)
(* JumpingJacks: x <= -15 infinitely often), the session reaches           *)
(* completedReps = 10, sets finished and returns to Idle; a tick whose     *)
(* sample does not qualify leaves the session in Tracking with every       *)
(* counter and flag unchanged, so a session with no qualifying sample      *)
(* stays there forever.                                                    *)
(***************************************************************************)
Qualifies(k, x, y, z) ==
  IF k = "JumpJacks" THEN x <= -15 ELSE RefCmp(k, x, y, z)

C14_ActiveFed ==
  pc = "track" /\ ticks > 0 /\ ActiveCmp(active, X, Y, Z)

C14_ReferenceFed ==
  pc = "track" /\ ticks > 0 /\ Qualifies(active, X, Y, Z)

C14_Step ==
  \A k \in Kinds :
    TickOf(k) /\ ~Qualifies(k, X', Y', Z') =>
      /\ pc' = "track" /\ active' = k
      /\ numOf' = numOf /\ finished' = finished

C14_SessionCompletes ==
  /\ ([]<>C14_ActiveFed /\ []<>C14_ReferenceFed) =>
       \A k \in Kinds :
         TickOf(k) ~> (pc = "idle" /\ finished[k] /\ numOf[k] = REPS)
  /\ [][C14_Step]_vars

C14_Witness ==
  /\ pc = "idle"
  /\ \A k \in Kinds : finished[k] /\ numOf[k] = REPS /\ sessions[k] = 1

(***************************************************************************)
(* C15: a kind's counter is incremented only by a tick of its own          *)
(* detector, and its flag is set only by its own track* function; so       *)
(* during a session of kind K, and from the start of the beginTracking     *)
(* call that runs it to its return, the counters and flags of the three    *)
(* other kinds do not change.                                              *)
(***************************************************************************)
C15_Step ==
  \A k \in Kinds :
    /\ numOf'[k] # numOf[k] => TickOf(k)
    /\ finished'[k] # finished[k] => active = k /\ pc = "mark"
    /\ active # k /\ (pc # "idle" \/ pc' # "idle") =>
         numOf'[k] = numOf[k] /\ finished'[k] = finished[k]

C15_SingleWriter == [][C15_Step]_vars

C15_Witness ==
  /\ active = "Squats"
  /\ pc = "menu"
  /\ numOf = [k \in Kinds |-> IF k \in {"Squats", "PushUps"} THEN REPS ELSE 0]
  /\ finished = [k \in Kinds |-> k \in {"Squats", "PushUps"}]

(***************************************************************************)
(* C16: a repetition lights the LED whose index is completedReps before    *)
(* the increment, an index within 0..9; from the start animation to the    *)
(* completion fill the LEDs lit in the kind's color are exactly            *)
(* 0..completedReps-1 and the others are off.                              *)
(***************************************************************************)
C16_RepLeds ==
  \A k \in Kinds :
    active = k /\ pc \in {"track", "done"} =>
      /\ \A i \in Pixels :
           leds[i] = IF i < numOf[k] THEN Color(k) ELSE "OFF"
      /\ lastInc => numOf[k] - 1 \in Pixels /\ leds[numOf[k] - 1] = Color(k)

C16_Witness ==
  /\ active = "PushUps"
  /\ pc = "done"
  /\ lastInc
  /\ leds = [i \in Pixels |-> "PINK"]

(***************************************************************************)
(* C17: the controller is idle, in the upright loop, or in the session of  *)
(* exactly one kind; only the detector of that kind is live; a session     *)
(* starts only when none is running, and the running one ends only with    *)
(* the return to Idle.                                                     *)
(***************************************************************************)
C17_OneSession ==
  /\ pc \in {"idle", "upright", "track", "done", "mark", "reload", "menu"}
  /\ pc \in {"idle", "upright"} => active = None
  /\ pc \in {"track", "done", "mark", "reload"} => active \in Kinds
  /\ isUpSitUp => active = "SitUps"
  /\ isDownPushUp => active = "PushUps"
  /\ isDownSquat => active = "Squats"
  /\ totalJumps # 0 => active = "JumpJacks"

C17_Step ==
  /\ \A k \in Kinds : Starts(k) => active = None /\ active' = k
  /\ active # None /\ active' # active => active' = None /\ pc' = "idle"

C17_AtMostOneSession == []C17_OneSession /\ [][C17_Step]_vars

C17_Witness ==
  /\ TickOf("Squats")
  /\ isDownSquat
  /\ finished["JumpJacks"] /\ finished["SitUps"]
  /\ numOf["Squats"] = 3

(***************************************************************************)
(* C18: each kind has at most one session between power-on and power-off,  *)
(* a session starts with the kind's completedReps at 0 (the counter is 0   *)
(* as long as the kind has had no session), and in Idle each kind has      *)
(* completedReps = 0 and finished false, or completedReps = 10 and         *)
(* finished true; so there are at most four sessions and four completion   *)
(* events.                                                                 *)
(***************************************************************************)
C18_OneSessionPerKind ==
  /\ \A k \in Kinds :
       /\ sessions[k] <= 1
       /\ victory[k] <= sessions[k]
       /\ sessions[k] = 0 => numOf[k] = 0 /\ ~finished[k]
       /\ active = k /\ pc = "track" /\ ticks = 0 => numOf[k] = 0
       /\ pc = "idle" =>
            \/ numOf[k] = 0 /\ ~finished[k]
            \/ numOf[k] = REPS /\ finished[k]
  /\ sessions["JumpJacks"] + sessions["Squats"]
       + sessions["SitUps"] + sessions["PushUps"] <= 4
  /\ victory["JumpJacks"] + victory["Squats"]
       + victory["SitUps"] + victory["PushUps"] <= 4

C18_Witness ==
  /\ pc = "idle"
  /\ sessions = [k \in Kinds |-> 1]
  /\ victory = [k \in Kinds |-> 1]
  /\ outcome = "upright"

(***************************************************************************)
(* C19: no sample satisfies two of x<y<z, y>z>x, z>x>y; a starting sample  *)
(* with y>z>x starts Pushups if and only if Pushups is not finished, one   *)
(* with z>x>y starts Situps if and only if Situps is not finished,         *)
(* whatever the other flags; a press starts Pushups or Situps on no other  *)
(* sample, and with the kind of the orientation finished it starts         *)
(* nothing.                                                                *)
(***************************************************************************)
C19_Exclusive ==
  /\ ~((X < Y /\ Y < Z) /\ (Y > Z /\ Z > X))
  /\ ~((X < Y /\ Y < Z) /\ (Z > X /\ X > Y))
  /\ ~((Y > Z /\ Z > X) /\ (Z > X /\ X > Y))

C19_Step ==
  pc = "idle" /\ pc' # "idle" =>
    /\ Y' > Z' /\ Z' > X' =>
         IF finished["PushUps"]
           THEN sessions' = sessions /\ active' = None /\ pc' = "menu"
           ELSE Starts("PushUps") /\ active' = "PushUps"
    /\ Z' > X' /\ X' > Y' =>
         IF finished["SitUps"]
           THEN sessions' = sessions /\ active' = None /\ pc' = "menu"
           ELSE Starts("SitUps") /\ active' = "SitUps"
    /\ Starts("PushUps") => Y' > Z' /\ Z' > X'
    /\ Starts("SitUps") => Z' > X' /\ X' > Y'
    /\ ~Starts("JumpJacks") /\ ~Starts("Squats")

C19_OrientationDecides == []C19_Exclusive /\ [][C19_Step]_vars

C19_Witness ==
  /\ pc = "menu"
  /\ active = None
  /\ outcome = "undetermined"
  /\ Z > X /\ X > Y
  /\ finished["SitUps"]
  /\ ~finished["PushUps"]

(***************************************************************************)
(* C20: in the Situps, Pushups and Squats detectors a sample whose two     *)
(* compared axes are equal (x = y, z = x, z = y) changes neither the       *)
(* phase nor completedReps, whatever the phase.                            *)
(***************************************************************************)
C20_Step ==
  /\ TickOf("SitUps") /\ X' = Y' =>
       isUpSitUp' = isUpSitUp /\ numOf' = numOf /\ pc' = "track"
  /\ TickOf("PushUps") /\ Z' = X' =>
       isDownPushUp' = isDownPushUp /\ numOf' = numOf /\ pc' = "track"
  /\ TickOf("Squats") /\ Z' = Y' =>
       isDownSquat' = isDownSquat /\ numOf' = numOf /\ pc' = "track"

C20_TiesChangeNothing == [][C20_Step]_vars

C20_Witness ==
  /\ TickOf("PushUps")
  /\ isDownPushUp
  /\ Z = X
  /\ ticks >= 2
  /\ ~lastChanged /\ ~lastInc

=============================================================================
